---- MODULE Spec2Model ----
(***************************************************************************)
(* Model of the F1 telemetry persistence layer (src/database).             *)
(*                                                                         *)
(* The store is an SQLite database reached through SQLAlchemy sessions.    *)
(* Every caller (thread) owns one session, hence one connection:           *)
(*   - rows a session has flushed are visible to that session only, until  *)
(*     it commits (store is the committed database, txn[p] the rows of the *)
(*     open transaction of caller p);                                      *)
(*   - SQLite admits one writing transaction at a time (writer);           *)
(*   - SELECTs run outside a transaction and read the committed database   *)
(*     as it is when they run.                                             *)
(* Python dicts are functions with a finite domain of strings (a key that  *)
(* is absent from the dict is absent from the DOMAIN); Python lists are    *)
(* sequences; None is the value None below.                                *)
(***************************************************************************)
EXTENDS Integers, Sequences, FiniteSets, TLC

VARIABLES
    store,    \* the committed database: one set of rows per table
    writer,   \* the caller that holds SQLite's write lock, or NoProc
    txn,      \* txn[p]: rows written by p's open transaction (not committed)
    pc,       \* pc[p]: position of caller p inside the call it is running
    call,     \* call[p]: the call p runs or has last run (name, arguments, and
              \* its number n among the calls of p)
    loc,      \* loc[p]: local variables of the running call
    ret,      \* ret[p]: the value the last finished call of p returned
    prev,     \* prev[p]: name, arguments and result of p's call before call[p]
    origin,   \* origin[id]: the import that committed Session row id (history)
    faults,   \* number of storage faults injected so far
    ncalls,   \* ncalls[p]: number of calls p has started
    inputs    \* the natural keys and payloads the callers hold

vars == <<store, writer, txn, pc, call, loc, ret, prev, origin, faults, ncalls,
          inputs>>

----------------------------------------------------------------------------
(* Bounds of the model *)

MaxCalls == 2      \* calls of the first caller
MaxOtherCalls == 1 \* calls of every other caller
MaxFaults == 1     \* storage faults injected in one behaviour
LongExtra == 1     \* frames of the long payload beyond one full batch

Procs == {"p1", "p2"}
NoProc == "none"

CallBound(p) == IF p = "p1" THEN MaxCalls ELSE MaxOtherCalls

----------------------------------------------------------------------------
(* Python values *)

None == -1

Get(d, k, dflt) == IF k \in DOMAIN d THEN d[k] ELSE dflt

EmptyDict == <<>>

Max(S) == CHOOSE m \in S : \A n \in S : n <= m

Min2(a, b) == IF a < b THEN a ELSE b

\* the rows of a table in rowid order
RowSeq(rows) ==
    IF rows = {} THEN <<>>
    ELSE LET ids == {r.id : r \in rows}
             idseq == SelectSeq([i \in 1..Max(ids) |-> i], LAMBDA i : i \in ids)
         IN [k \in DOMAIN idseq |-> CHOOSE r \in rows : r.id = idseq[k]]

\* int(v) of a non-negative number kept in tenths: truncation towards zero
PyInt(v) == (v \div 10) * 10

\* float(v): the same number (1 == 1.0 in Python)
PyFloat(v) == v

\* values returned to the caller
RetNone == [tag |-> "None"]
RetId(id) == [tag |-> "id", val |-> id]
RetBool(b) == [tag |-> "bool", val |-> b]
RetDict(d) == [tag |-> "dict", val |-> d]
RetList(l) == [tag |-> "list", val |-> l]

----------------------------------------------------------------------------
(* Inputs: natural keys, session metadata, payloads *)

K_R == [year |-> 2024, round |-> 1, type |-> "R"]
K_Q == [year |-> 2024, round |-> 1, type |-> "Q"]
K_Old == [year |-> 2023, round |-> 2, type |-> "Q"]

SessionInfos == {[event_name |-> "GP", country |-> "IT", date |-> "2024-09-01"]}

\* the order in which the driver codes of a dict are iterated
CodeSeq == <<"A", "B">>
CodeIdx(c) == CHOOSE i \in DOMAIN CodeSeq : CodeSeq[i] = c

\* driver samples; tyre is kept in tenths (10 is compound 1)
SampleFull(n) == [x |-> n, y |-> n + 1, dist |-> 5, rel_dist |-> 0, position |-> 1,
                  lap |-> 1, speed |-> 300, gear |-> 7, drs |-> 0, throttle |-> 100,
                  brake |-> 0, tyre |-> 10]
SampleMin(n) == [x |-> n, y |-> n + 1]
SampleNoX == [y |-> 3, speed |-> 100]

Weather == [track_temp |-> 30, air_temp |-> 20, humidity |-> 50, wind_speed |-> 3,
            wind_direction |-> 90, rain_state |-> 0]

StatusOpen == [status |-> 4, start_time |-> 5]
StatusClosed == [status |-> 6, start_time |-> 2, end_time |-> 4]
StatusBad == [status |-> 4]

Colors == ("A" :> <<255, 0, 0>>) @@ ("B" :> <<0, 0, 255>>)

Race(frames, statuses) ==
    [frames |-> frames, driver_colors |-> Colors, track_statuses |-> statuses,
     total_laps |-> 50]

FrameAB(t) == [t |-> t, lap |-> 1, weather |-> Weather,
               drivers |-> ("A" :> SampleFull(t)) @@ ("B" :> SampleMin(t))]
FrameA(t) == [t |-> t, drivers |-> ("A" :> SampleFull(t))]

\* the batch size of save_race_telemetry
batch_size == 100

LongLen == batch_size + LongExtra

\* no frames at all
P_Empty == Race(<<>>, <<StatusOpen>>)
\* Scenario A of the specification: 3 frames, 2 drivers, one open status
P_Three == Race(<<FrameAB(0), FrameAB(1), FrameAB(2)>>, <<StatusOpen>>)
\* driver B first appears in the second frame
P_Late == Race(<<FrameA(0), FrameAB(1)>>, <<StatusClosed, StatusOpen>>)
\* more than one batch
P_Long == Race([i \in 1..LongLen |-> FrameA(i)], <<>>)
\* frames and statuses supplied out of time order, two frames of one time
P_Tie == Race(<<FrameA(1), FrameA(0), FrameAB(0)>>, <<StatusOpen, StatusClosed>>)
\* a full weather snapshot, one without track temperature, none
P_Weather == Race(<<FrameAB(0),
                    [t |-> 1, weather |-> [air_temp |-> 20, humidity |-> 50],
                     drivers |-> ("A" :> SampleMin(1))],
                    FrameA(2)>>, <<>>)
\* malformed payloads
P_BadFirst == Race(<<[lap |-> 1, drivers |-> ("A" :> SampleMin(0))], FrameA(1)>>, <<>>)
P_BadLast == Race([i \in 1..LongLen |->
                     IF i = LongLen THEN [drivers |-> ("A" :> SampleMin(0))]
                     ELSE FrameA(i)], <<>>)
P_BadSample == Race(<<FrameA(0), [t |-> 1, drivers |-> ("A" :> SampleNoX)]>>, <<>>)
P_BadLateSample == Race(<<FrameA(0),
                          [t |-> 1, drivers |-> ("A" :> SampleMin(1)) @@ ("B" :> SampleNoX)]>>,
                        <<>>)
P_BadStatus == Race(<<FrameA(0)>>, <<StatusBad>>)

\* what "malformed" means for a race payload (specification, section 7 (d))
FrameMalformed(f) ==
    \/ "t" \notin DOMAIN f
    \/ \E c \in DOMAIN Get(f, "drivers", EmptyDict) :
          "x" \notin DOMAIN f.drivers[c] \/ "y" \notin DOMAIN f.drivers[c]
StatusMalformed(s) == "status" \notin DOMAIN s \/ "start_time" \notin DOMAIN s
RaceMalformed(d) ==
    \/ \E i \in DOMAIN d.frames : FrameMalformed(d.frames[i])
    \/ \E i \in DOMAIN d.track_statuses : StatusMalformed(d.track_statuses[i])

----------------------------------------------------------------------------
(* The database *)

EmptyDB == [sessions |-> {}, drivers |-> {}, frames |-> {}, dtel |-> {},
            statuses |-> {}, qresults |-> {}, qtel |-> {}]

Merge(a, b) == [sessions |-> a.sessions \cup b.sessions,
                drivers  |-> a.drivers \cup b.drivers,
                frames   |-> a.frames \cup b.frames,
                dtel     |-> a.dtel \cup b.dtel,
                statuses |-> a.statuses \cup b.statuses,
                qresults |-> a.qresults \cup b.qresults,
                qtel     |-> a.qtel \cup b.qtel]

\* INTEGER PRIMARY KEY of SQLite: one more than the largest rowid of the table
NextId(rows) == IF rows = {} THEN 1 ELSE Max({r.id : r \in rows}) + 1

\* what caller p reads: the committed rows and those of its own transaction
View(p) == Merge(store, txn[p])

\* the lookup without its session_type condition
SessionQueryAnyType(db, key) ==
    {s \in db.sessions : s.year = key.year /\ s.round_number = key.round}

\* a lookup whose filter no row satisfies
SessionQueryNoMatch(db, key) == {}

\* query(Session).filter(year ==, round_number ==, session_type ==)
SessionQuery(db, key) ==
    {s \in db.sessions : /\ s.year = key.year
                         /\ s.round_number = key.round
                         /\ s.session_type = key.type}

\* .first() of a query: the row of least rowid
First(rows) == CHOOSE r \in rows : \A q \in rows : r.id <= q.id

\* a sessions table whose index is not unique
UniqueViolationNever(db, key) == FALSE

\* the unique index idx_session_lookup rejects a second row of the same key
UniqueViolation(db, key) == SessionQuery(db, key) # {}

\* a rollback that leaves the rows of the open transaction in the database
RollbackKeepsRows(db, t) == [sessions |-> db.sessions \cup t.sessions,
                             drivers  |-> db.drivers \cup t.drivers,
                             frames   |-> db.frames \cup t.frames,
                             dtel     |-> db.dtel \cup t.dtel,
                             statuses |-> db.statuses \cup t.statuses,
                             qresults |-> db.qresults \cup t.qresults,
                             qtel     |-> db.qtel \cup t.qtel]

\* a failure handler that empties the database
RollbackDropsAll(db, t) ==
    [sessions |-> {}, drivers |-> {}, frames |-> {}, dtel |-> {}, statuses |-> {},
     qresults |-> {}, qtel |-> {}]

\* db_session.rollback() and close_session(): the database without the rows
\* t of the open transaction
Rollback(db, t) == db

\* db_session.commit(): the rows of the open transaction join the database
Commit(db, t) == Merge(db, t)

----------------------------------------------------------------------------
(* Row constructors *)

SessionRow(id, key, info, laps, rotation) ==
    [id |-> id, year |-> key.year, round_number |-> key.round,
     session_type |-> key.type,
     event_name |-> Get(info, "event_name", ""),
     circuit_name |-> Get(info, "circuit_name", ""),
     country |-> Get(info, "country", ""),
     event_date |-> Get(info, "date", ""),
     total_laps |-> laps, circuit_rotation |-> rotation]

DriverRow(id, sid, code, name, color) ==
    [id |-> id, session_id |-> sid, driver_code |-> code, full_name |-> name,
     color_r |-> color[1], color_g |-> color[2], color_b |-> color[3]]

\* a status row whose end time defaults to 0
StatusRowEndZero(id, sid, s) ==
    [id |-> id, session_id |-> sid, status |-> s.status,
     start_time |-> s.start_time, end_time |-> Get(s, "end_time", 0)]

StatusRow(id, sid, s) ==
    [id |-> id, session_id |-> sid, status |-> s.status,
     start_time |-> s.start_time, end_time |-> Get(s, "end_time", None)]

FrameRow(id, sid, f) ==
    LET weather == Get(f, "weather", EmptyDict) IN
    [id |-> id, session_id |-> sid, time |-> f.t, lap |-> Get(f, "lap", None),
     track_temp |-> Get(weather, "track_temp", None),
     air_temp |-> Get(weather, "air_temp", None),
     humidity |-> Get(weather, "humidity", None),
     wind_speed |-> Get(weather, "wind_speed", None),
     wind_direction |-> Get(weather, "wind_direction", None),
     rain_state |-> Get(weather, "rain_state", None)]

\* a sample row whose absent numeric fields default to 0
DriverTelemetryRowDefaults(id, fid, did, d) ==
    [id |-> id, frame_id |-> fid, driver_id |-> did, x |-> d.x, y |-> d.y,
     distance |-> Get(d, "dist", 0),
     relative_distance |-> Get(d, "rel_dist", 0),
     position |-> Get(d, "position", 0), lap |-> Get(d, "lap", 0),
     speed |-> Get(d, "speed", 0), gear |-> Get(d, "gear", 0),
     drs |-> Get(d, "drs", 0), throttle |-> Get(d, "throttle", 0),
     brake |-> Get(d, "brake", 0),
     tyre_compound |-> PyInt(Get(d, "tyre", 0))]

DriverTelemetryRow(id, fid, did, d) ==
    [id |-> id, frame_id |-> fid, driver_id |-> did, x |-> d.x, y |-> d.y,
     distance |-> Get(d, "dist", None),
     relative_distance |-> Get(d, "rel_dist", None),
     position |-> Get(d, "position", None), lap |-> Get(d, "lap", None),
     speed |-> Get(d, "speed", None), gear |-> Get(d, "gear", None),
     drs |-> Get(d, "drs", None), throttle |-> Get(d, "throttle", None),
     brake |-> Get(d, "brake", None),
     tyre_compound |-> PyInt(Get(d, "tyre", 0))]

\* position of code c when the codes of S are iterated
CodeRank(c, S) == Cardinality({d \in S : CodeIdx(d) <= CodeIdx(c)})

----------------------------------------------------------------------------
(* Calls *)

NoCall == [op |-> "none", n |-> 0]

LocInit == [sid |-> 0, dmap |-> EmptyDict, i |-> 0, j |-> 0, rid |-> 0,
            wrote |-> 0, fail |-> ""]

\* caller p starts call c (its previous call, if any, has returned)
Begin(p, c) ==
    /\ pc[p] \in {"idle", "done"}
    /\ ncalls[p] < CallBound(p)
    /\ c.op \in inputs.ops
    /\ ncalls' = [ncalls EXCEPT ![p] = @ + 1]
    /\ UNCHANGED inputs
    /\ call' = [call EXCEPT ![p] = c @@ [n |-> ncalls[p] + 1]]
    /\ prev' = [prev EXCEPT ![p] = [call |-> call[p], ret |-> ret[p],
                                    fail |-> loc[p].fail]]

\* the call of p returns r; close_session ends its open transaction
Return(p, r, l) ==
    /\ pc' = [pc EXCEPT ![p] = "done"]
    /\ ret' = [ret EXCEPT ![p] = r]
    /\ loc' = [loc EXCEPT ![p] = l]
    /\ txn' = [txn EXCEPT ![p] = EmptyDB]
    /\ writer' = IF writer = p THEN NoProc ELSE writer

\* the except branch of an import: rollback, return None
Fail(p, kind) ==
    /\ Return(p, RetNone, [loc[p] EXCEPT !.fail = kind])
    /\ store' = Rollback(store, txn[p])
    /\ UNCHANGED origin

----------------------------------------------------------------------------
(* check_session_exists *)

\* one query; an exception of the query is not caught (try/finally only)
CheckSessionExists(p, key) ==
    /\ Begin(p, [op |-> "check_session_exists", key |-> key])
    /\ Return(p, RetBool(SessionQuery(store, key) # {}), LocInit)
    /\ UNCHANGED <<store, origin, faults>>

----------------------------------------------------------------------------
(* save_race_telemetry *)

\* the rows of the Session, its Drivers (codes of the first frame) and its
\* TrackStatuses, as save_race_telemetry adds them before the frame loop
RaceDriverCodes(data) ==
    LET frames == Get(data, "frames", <<>>) IN
    IF frames # <<>> THEN DOMAIN Get(frames[1], "drivers", EmptyDict) ELSE {}

RaceHeadRows(db, key, info, data) ==
    LET sid == NextId(db.sessions)
        colors == Get(data, "driver_colors", EmptyDict)
        codes == RaceDriverCodes(data)
        dbase == NextId(db.drivers) - 1
        statuses == Get(data, "track_statuses", <<>>)
        sbase == NextId(db.statuses) - 1
    IN [EmptyDB EXCEPT
          !.sessions = {SessionRow(sid, key, info, Get(data, "total_laps", 0),
                                   Get(info, "circuit_rotation", 0))},
          !.drivers = {DriverRow(dbase + CodeRank(c, codes), sid, c, None,
                                 Get(colors, c, <<128, 128, 128>>)) : c \in codes},
          !.statuses = {StatusRow(sbase + k, sid, statuses[k]) : k \in DOMAIN statuses}]

\* every code mapped to one and the same Driver row
DriverMapToOne(rows) == [c \in {d.driver_code : d \in rows} |->
                           (CHOOSE d \in rows : TRUE).id]

\* driver_map: driver code -> id of its Driver row
DriverMap(rows) == [c \in {d.driver_code : d \in rows} |->
                      (CHOOSE d \in rows : d.driver_code = c).id]

\* a frame or a sample of it that raises while the batch is written:
\* frame_data['t'], driver_data['x'], driver_data['y'] of a mapped driver,
\* int(None), or a NULL in a NOT NULL column
FrameRaises(f, dmap) ==
    \/ "t" \notin DOMAIN f
    \/ f.t = None
    \/ \E c \in DOMAIN Get(f, "drivers", EmptyDict) \cap DOMAIN dmap :
          LET d == f.drivers[c] IN
          \/ "x" \notin DOMAIN d
          \/ "y" \notin DOMAIN d
          \/ d.x = None
          \/ d.y = None
          \/ Get(d, "tyre", 0) = None

\* the TelemetryFrame and DriverTelemetry rows of frames lo..hi
RaceBatchRows(db, sid, dmap, frames, lo, hi) ==
    LET fbase == NextId(db.frames) - lo
        tbase == NextId(db.dtel) - 1
        mapped(k) == DOMAIN Get(frames[k], "drivers", EmptyDict) \cap DOMAIN dmap
        off(k) == Cardinality(UNION {{<<j, c>> : c \in mapped(j)} : j \in lo..k})
    IN [EmptyDB EXCEPT
          !.frames = {FrameRow(fbase + k, sid, frames[k]) : k \in lo..hi},
          !.dtel = UNION {
              {DriverTelemetryRow(tbase + off(k - 1) + CodeRank(c, mapped(k)),
                                  fbase + k, dmap[c], frames[k].drivers[c])
                 : c \in mapped(k)} : k \in lo..hi}]

\* the call starts and looks the session up
SaveRaceCheck(p, key, info, data) ==
    /\ Begin(p, [op |-> "save_race_telemetry", key |-> key, info |-> info,
                 data |-> data])
    /\ LET existing == SessionQuery(store, key) IN
       IF existing # {}
       THEN Return(p, RetId(First(existing).id), LocInit)
       ELSE /\ pc' = [pc EXCEPT ![p] = "sr_create"]
            /\ loc' = [loc EXCEPT ![p] = LocInit]
            /\ UNCHANGED <<ret, txn, writer>>
    /\ UNCHANGED <<store, origin, faults>>

\* Session, Driver and TrackStatus rows are added and flushed; with no frame
\* the loop body never runs, nothing is committed and the id is returned
SaveRaceCreate(p) ==
    /\ pc[p] = "sr_create"
    /\ writer \in {NoProc, p}
    /\ LET key == call[p].key
           data == call[p].data
           statuses == Get(data, "track_statuses", <<>>)
           rows == RaceHeadRows(View(p), key, call[p].info, data)
           sid == NextId(View(p).sessions)
       IN IF UniqueViolation(View(p), key)
          THEN Fail(p, "integrity")
          ELSE IF \E k \in DOMAIN statuses : StatusMalformed(statuses[k])
          THEN Fail(p, "malformed")
          ELSE IF Get(data, "frames", <<>>) = <<>>
          THEN /\ Return(p, RetId(sid), [loc[p] EXCEPT !.sid = sid])
               /\ store' = Rollback(store, rows)
               /\ UNCHANGED origin
          ELSE /\ txn' = [txn EXCEPT ![p] = rows]
               /\ writer' = p
               /\ loc' = [loc EXCEPT ![p] = [@ EXCEPT !.sid = sid,
                                                      !.dmap = DriverMap(rows.drivers)]]
               /\ pc' = [pc EXCEPT ![p] = "sr_batch"]
               /\ UNCHANGED <<store, origin, ret>>
    /\ UNCHANGED <<call, prev, faults, ncalls, inputs>>

\* one batch of frames is written and committed; after the last one the
\* call returns the session id
SaveRaceBatch(p) ==
    /\ pc[p] = "sr_batch"
    /\ writer \in {NoProc, p}
    /\ LET frames == call[p].data.frames
           lo == loc[p].i + 1
           hi == Min2(loc[p].i + batch_size, Len(frames))
           sid == loc[p].sid
           last == loc[p].i + batch_size >= Len(frames)
       IN IF \E k \in lo..hi : FrameRaises(frames[k], loc[p].dmap)
          THEN Fail(p, "malformed")
          ELSE /\ store' = Commit(store,
                      Merge(txn[p], RaceBatchRows(View(p), sid, loc[p].dmap,
                                                  frames, lo, hi)))
               /\ origin' = (sid :> [call |-> call[p], complete |-> last]) @@ origin
               /\ IF last
                  THEN Return(p, RetId(sid), [loc[p] EXCEPT !.wrote = @ + 1])
                  ELSE /\ loc' = [loc EXCEPT ![p] = [@ EXCEPT !.i = @ + batch_size,
                                                              !.wrote = @ + 1]]
                       /\ txn' = [txn EXCEPT ![p] = EmptyDB]
                       /\ writer' = NoProc
                       /\ UNCHANGED <<pc, ret>>
    /\ UNCHANGED <<call, prev, faults, ncalls, inputs>>

----------------------------------------------------------------------------
(* load_race_telemetry *)

ByTimeThenId(a, b) == a.time < b.time \/ (a.time = b.time /\ a.id < b.id)
ByStartThenId(a, b) == a.start_time < b.start_time
                       \/ (a.start_time = b.start_time /\ a.id < b.id)

\* the frames in the order of their insertion
OrderFramesById(rows) == RowSeq(rows)

\* order_by(TelemetryFrame.time) over the index (session_id, time)
OrderFrames(rows) == SortSeq(RowSeq(rows), ByTimeThenId)
\* order_by(TrackStatus.start_time) over the index (session_id, start_time)
OrderStatuses(rows) == SortSeq(RowSeq(rows), ByStartThenId)

ExportSample(point) ==
    [x |-> point.x, y |-> point.y, dist |-> point.distance,
     rel_dist |-> point.relative_distance, position |-> point.position,
     lap |-> point.lap, speed |-> point.speed, gear |-> point.gear,
     drs |-> point.drs, throttle |-> point.throttle, brake |-> point.brake,
     tyre |-> PyFloat(point.tyre_compound)]

ExportFrame(db, drivers, fr) ==
    LET points == {t \in db.dtel : /\ t.frame_id = fr.id
                                   /\ \E d \in drivers : d.id = t.driver_id}
        code(t) == (CHOOSE d \in drivers : d.id = t.driver_id).driver_code
        codes == {code(t) : t \in points}
        drivers_data == [c \in codes |->
            ExportSample(CHOOSE t \in points :
                            /\ code(t) = c
                            /\ \A u \in points : code(u) = c => u.id <= t.id)]
        base == [t |-> fr.time, lap |-> fr.lap, drivers |-> drivers_data]
    IN IF fr.track_temp # None
       THEN base @@ [weather |->
                [track_temp |-> fr.track_temp, air_temp |-> fr.air_temp,
                 humidity |-> fr.humidity, wind_speed |-> fr.wind_speed,
                 wind_direction |-> fr.wind_direction,
                 rain_state |-> fr.rain_state]]
       ELSE base

ExportRace(db, srow) ==
    LET drivers == {d \in db.drivers : d.session_id = srow.id}
        lastOf(c) == CHOOSE d \in drivers :
                        /\ d.driver_code = c
                        /\ \A e \in drivers : e.driver_code = c => e.id <= d.id
        statuses == OrderStatuses({s \in db.statuses : s.session_id = srow.id})
        frs == OrderFrames({f \in db.frames : f.session_id = srow.id})
    IN [frames |-> [k \in DOMAIN frs |-> ExportFrame(db, drivers, frs[k])],
        driver_colors |-> [c \in {d.driver_code : d \in drivers} |->
            <<lastOf(c).color_r, lastOf(c).color_g, lastOf(c).color_b>>],
        track_statuses |-> [k \in DOMAIN statuses |->
            [status |-> statuses[k].status, start_time |-> statuses[k].start_time,
             end_time |-> statuses[k].end_time]],
        total_laps |-> srow.total_laps]

\* the call starts and looks the session up
LoadRaceFind(p, key) ==
    /\ Begin(p, [op |-> "load_race_telemetry", key |-> key])
    /\ LET found == SessionQuery(store, key) IN
       IF found = {}
       THEN Return(p, RetNone, LocInit)
       ELSE /\ pc' = [pc EXCEPT ![p] = "lr_frames"]
            /\ loc' = [loc EXCEPT ![p] = [LocInit EXCEPT !.sid = First(found).id]]
            /\ UNCHANGED <<ret, txn, writer>>
    /\ UNCHANGED <<store, origin, faults>>

\* drivers, track statuses, frames and samples are queried and rebuilt
LoadRaceFrames(p) ==
    /\ pc[p] = "lr_frames"
    /\ LET srow == CHOOSE s \in store.sessions : s.id = loc[p].sid IN
       Return(p, RetDict(ExportRace(store, srow)), loc[p])
    /\ UNCHANGED <<store, origin, call, prev, faults, ncalls, inputs>>

----------------------------------------------------------------------------
(* Qualifying payloads.  A Python str is a sequence of one-character      *)
(* strings; a float is kept in tenths; a full name is a number that stands *)
(* for the name.                                                           *)

DigitChars == <<"0", "1", "2", "3", "4", "5", "6", "7", "8", "9">>
DigitVal(c) == (CHOOSE i \in DOMAIN DigitChars : DigitChars[i] = c) - 1

RECURSIVE DigitsVal(_)
DigitsVal(s) == IF s = <<>> THEN 0
                ELSE DigitsVal(SubSeq(s, 1, Len(s) - 1)) * 10 + DigitVal(s[Len(s)])

RECURSIVE DigitsOf(_)
DigitsOf(n) == IF n < 10 THEN <<DigitChars[n + 1]>>
               ELSE DigitsOf(n \div 10) \o <<DigitChars[(n % 10) + 1]>>

\* float(s) of a decimal string (digits, optionally a point and digits, of
\* which only the first may differ from 0): the number in tenths
PyFloatOfStr(s) ==
    LET dots == {i \in DOMAIN s : s[i] = "."}
        dot == IF dots = {} THEN Len(s) + 1 ELSE CHOOSE i \in dots : TRUE
        frac == SubSeq(s, dot + 1, Len(s))
    IN DigitsVal(SubSeq(s, 1, dot - 1)) * 10
       + (IF frac = <<>> THEN 0 ELSE DigitVal(frac[1]))

\* str(v) of a float: integral part, point, one decimal
PyStrOfFloat(v) == DigitsOf(v \div 10) \o <<".">> \o <<DigitChars[(v % 10) + 1]>>

\* None where a str may stand (no str equals it: "None" is no character)
NoneStr == <<"None">>

\* truth value of a lap time as supplied (None and '' are false)
TruthyStr(v) == v # NoneStr /\ v # <<>>
\* truth value of a stored number (None and 0 are false)
TruthyNum(v) == v # None /\ v # 0

QSample(t) == [t |-> t, x |-> 1, y |-> 2, speed |-> 300]

Segment(maxs, mins) ==
    [frames |-> <<QSample(0), QSample(1)>>, max_speed |-> maxs, min_speed |-> mins,
     sector_times |-> [sector1 |-> 25, sector2 |-> 30, sector3 |-> 28],
     compound |-> 1, drs_zones |-> <<[start |-> 10, end |-> 20]>>]

QResA == [code |-> "A", full_name |-> 1, color |-> <<255, 0, 0>>, position |-> 1,
          Q1 |-> <<"8", "3", ".", "5">>, Q2 |-> <<"8", "2", ".", "1">>]
QResB == [code |-> "B", color |-> <<0, 0, 255>>, position |-> 2,
          Q1 |-> <<"8", "4", ".", "0">>]
QResBad == [code |-> "B", color |-> <<0, 0, 255>>]

QTelemetry == ("A" :> [Q1 |-> Segment(320, 80), Q2 |-> Segment(330, 70)])
              @@ ("B" :> [Q1 |-> Segment(310, 90),
                          Q2 |-> [frames |-> <<>>, max_speed |-> 400]])

\* Scenario B of the specification: a driver with Q1 and Q2 but no Q3
\* (for the other driver Q2 is supplied with an empty sample sequence)
Q_Two == [results |-> <<QResA, QResB>>, telemetry |-> QTelemetry]
\* the second entry lacks its position
Q_Bad == [results |-> <<QResA, QResBad>>, telemetry |-> QTelemetry]

\* the entries supplied against their final positions
Q_Rev == [results |-> <<QResB, QResA>>, telemetry |-> QTelemetry]
\* a lap time and a segment minimum speed of zero
QResZero == [code |-> "A", full_name |-> 1, color |-> <<255, 0, 0>>, position |-> 1,
             Q1 |-> <<"0", ".", "0">>, Q2 |-> <<"8", "2">>]
Q_Zero == [results |-> <<QResZero>>,
           telemetry |-> ("A" :> [Q1 |-> Segment(320, 0), Q2 |-> Segment(330, 70)])]

\* the results list names driver A twice
Q_Dup == [results |-> <<QResA, [QResA EXCEPT !.position = 2]>>,
          telemetry |-> QTelemetry]

\* what the callers of one behaviour draw their calls from: the operations
\* they use, the natural keys they import and load, and the payloads they hold
World(ops, keys, loads, race, quali) ==
    [ops |-> ops, keys |-> keys, loads |-> loads, race |-> race, quali |-> quali]
Worlds == {
    \* an import of several batches and its readers
    World({"save_race_telemetry", "load_race_telemetry", "check_session_exists"},
          {K_R}, {K_R}, {P_Long}, {}),
    World({"save_race_telemetry", "load_race_telemetry"}, {K_R}, {K_R}, {P_BadLast}, {}),
    \* race and qualifying imports of one key
    World({"save_race_telemetry", "save_qualifying_telemetry", "load_race_telemetry"},
          {K_R}, {K_R}, {P_Three}, {Q_Two}),
    \* imports with and without frames under two keys
    World({"save_race_telemetry"}, {K_R, K_Q}, {K_R, K_Q}, {P_Empty, P_Three}, {}),
    \* stable and changing driver sets
    World({"save_race_telemetry", "load_race_telemetry"}, {K_R}, {K_R},
          {P_Three, P_Late}, {}),
    \* frames and statuses out of order
    World({"save_race_telemetry", "load_race_telemetry"}, {K_R}, {K_R}, {P_Tie}, {}),
    \* sessions of two years and the catalog
    World({"save_race_telemetry", "get_all_sessions"}, {K_R, K_Old}, {}, {P_Three}, {}),
    \* deletion of a race session next to another session
    World({"save_race_telemetry", "delete"}, {K_R, K_Old}, {K_R}, {P_Three}, {}),
    \* deletion of a qualifying session
    World({"save_qualifying_telemetry", "delete"}, {K_Q}, {K_Q}, {}, {Q_Two}),
    \* weather snapshots with and without track temperature
    World({"save_race_telemetry", "load_race_telemetry"}, {K_R}, {K_R}, {P_Weather},
          {}),
    \* malformed race payloads
    World({"save_race_telemetry", "load_race_telemetry"}, {K_R}, {K_R},
          {P_BadFirst, P_BadStatus}, {}),
    World({"save_race_telemetry", "load_race_telemetry"}, {K_R}, {K_R},
          {P_BadSample, P_BadLateSample}, {}),
    \* qualifying imports of one key, loads and lookups of another, absent key
    World({"save_qualifying_telemetry", "load_qualifying_telemetry",
           "load_race_telemetry", "check_session_exists"}, {K_Q}, {K_R}, {}, {Q_Two}),
    \* qualifying imports and loads of one key
    World({"save_qualifying_telemetry", "load_qualifying_telemetry"}, {K_Q}, {K_Q}, {},
          {Q_Rev, Q_Bad}),
    \* a driver code named twice
    World({"save_qualifying_telemetry"}, {K_Q}, {K_Q}, {}, {Q_Dup}),
    \* lap times and speeds of zero
    World({"save_qualifying_telemetry", "load_qualifying_telemetry"}, {K_Q}, {K_Q}, {},
          {Q_Zero})}

Segments == <<"Q1", "Q2", "Q3">>

----------------------------------------------------------------------------
(* save_qualifying_telemetry *)

LapTime(result_data, q) ==
    IF TruthyStr(Get(result_data, q, NoneStr))
    THEN PyFloatOfStr(result_data[q]) ELSE None

QualifyingResultRow(id, sid, did, r) ==
    [id |-> id, session_id |-> sid, driver_id |-> did, position |-> r.position,
     q1_time |-> LapTime(r, "Q1"), q2_time |-> LapTime(r, "Q2"),
     q3_time |-> LapTime(r, "Q3")]

QualifyingTelemetryRow(id, rid, segment, sd) ==
    LET sectors == Get(sd, "sector_times", EmptyDict) IN
    [id |-> id, result_id |-> rid, segment |-> segment, frames_json |-> sd.frames,
     max_speed |-> Get(sd, "max_speed", None),
     min_speed |-> Get(sd, "min_speed", None),
     sector1_time |-> Get(sectors, "sector1", None),
     sector2_time |-> Get(sectors, "sector2", None),
     sector3_time |-> Get(sectors, "sector3", None),
     compound |-> Get(sd, "compound", None),
     drs_zones_json |-> Get(sd, "drs_zones", <<>>)]

\* result_data['code'], result_data['position'] or a NULL position
ResultRaises(r) == "code" \notin DOMAIN r \/ "position" \notin DOMAIN r
                   \/ r.position = None

\* a test that takes every supplied sample sequence, also an empty one
HasSamplesIfSupplied(segment_data) == "frames" \in DOMAIN segment_data

\* `if frames:` of segment_data.get('frames', [])
HasSamples(segment_data) == Get(segment_data, "frames", <<>>) # <<>>

\* the Driver, QualifyingResult and QualifyingTelemetry rows of one entry
QualiResultRows(db, sid, quali_data, r) ==
    LET did == NextId(db.drivers)
        rid == NextId(db.qresults)
        tbase == NextId(db.qtel) - 1
        telemetry == Get(Get(quali_data, "telemetry", EmptyDict), r.code, EmptyDict)
        seg(k) == Get(telemetry, Segments[k], EmptyDict)
        stored == {k \in DOMAIN Segments : HasSamples(seg(k))}
    IN [EmptyDB EXCEPT
          !.drivers = {DriverRow(did, sid, r.code, Get(r, "full_name", None),
                                 Get(r, "color", <<128, 128, 128>>))},
          !.qresults = {QualifyingResultRow(rid, sid, did, r)},
          !.qtel = {QualifyingTelemetryRow(
                       tbase + Cardinality({m \in stored : m <= k}),
                       rid, Segments[k], seg(k)) : k \in stored}]

\* the call starts and looks the session up
SaveQualiCheck(p, key, info, data) ==
    /\ Begin(p, [op |-> "save_qualifying_telemetry", key |-> key, info |-> info,
                 data |-> data])
    /\ LET existing == SessionQuery(store, key) IN
       IF existing # {}
       THEN Return(p, RetId(First(existing).id), LocInit)
       ELSE /\ pc' = [pc EXCEPT ![p] = "sq_create"]
            /\ loc' = [loc EXCEPT ![p] = LocInit]
            /\ UNCHANGED <<ret, txn, writer>>
    /\ UNCHANGED <<store, origin, faults>>

\* the Session row is added and flushed
SaveQualiCreate(p) ==
    /\ pc[p] = "sq_create"
    /\ writer \in {NoProc, p}
    /\ LET sid == NextId(View(p).sessions) IN
       IF UniqueViolation(View(p), call[p].key)
       THEN Fail(p, "integrity")
       ELSE /\ txn' = [txn EXCEPT ![p] = [EmptyDB EXCEPT !.sessions =
                         {SessionRow(sid, call[p].key, call[p].info, None, None)}]]
            /\ writer' = p
            /\ loc' = [loc EXCEPT ![p] = [@ EXCEPT !.sid = sid]]
            /\ pc' = [pc EXCEPT ![p] = "sq_result"]
            /\ UNCHANGED <<store, origin, ret>>
    /\ UNCHANGED <<call, prev, faults, ncalls, inputs>>

\* one entry of the results list is written
SaveQualiResult(p) ==
    /\ pc[p] = "sq_result"
    /\ LET results == Get(call[p].data, "results", <<>>) IN
       /\ loc[p].j < Len(results)
       /\ LET r == results[loc[p].j + 1] IN
          IF ResultRaises(r)
          THEN Fail(p, "malformed")
          ELSE /\ txn' = [txn EXCEPT ![p] =
                    Merge(@, QualiResultRows(View(p), loc[p].sid, call[p].data, r))]
               /\ loc' = [loc EXCEPT ![p] = [@ EXCEPT !.j = @ + 1]]
               /\ UNCHANGED <<store, origin, ret, pc, writer>>
    /\ UNCHANGED <<call, prev, faults, ncalls, inputs>>

\* the one commit of the import, then the session id is returned
SaveQualiCommit(p) ==
    /\ pc[p] = "sq_result"
    /\ loc[p].j = Len(Get(call[p].data, "results", <<>>))
    /\ store' = Commit(store, txn[p])
    /\ origin' = (loc[p].sid :> [call |-> call[p], complete |-> TRUE]) @@ origin
    /\ Return(p, RetId(loc[p].sid), [loc[p] EXCEPT !.wrote = @ + 1])
    /\ UNCHANGED <<call, prev, faults, ncalls, inputs>>

----------------------------------------------------------------------------
(* load_qualifying_telemetry *)

ByPositionThenId(a, b) == a.position < b.position
                          \/ (a.position = b.position /\ a.id < b.id)
ById(a, b) == a.id < b.id

\* the results in the order of their insertion
OrderResultsById(rows) == RowSeq(rows)

\* order_by(QualifyingResult.position) over the index (session_id, position)
OrderResults(rows) == SortSeq(RowSeq(rows), ByPositionThenId)

\* result.telemetry_data: the QualifyingTelemetry rows of a result
TelemetryData(db, result) ==
    SortSeq(RowSeq({t \in db.qtel : t.result_id = result.id}), ById)

ExportLapTime(q) == IF TruthyNum(q) THEN PyStrOfFloat(q) ELSE NoneStr

ExportResult(driver, result) ==
    [code |-> driver.driver_code, full_name |-> driver.full_name,
     position |-> result.position,
     color |-> <<driver.color_r, driver.color_g, driver.color_b>>,
     Q1 |-> ExportLapTime(result.q1_time), Q2 |-> ExportLapTime(result.q2_time),
     Q3 |-> ExportLapTime(result.q3_time)]

ExportSegment(t) ==
    [frames |-> t.frames_json, track_statuses |-> <<>>,
     drs_zones |-> IF t.drs_zones_json = <<>> THEN <<>> ELSE t.drs_zones_json,
     max_speed |-> t.max_speed, min_speed |-> t.min_speed,
     sector_times |-> [sector1 |-> t.sector1_time, sector2 |-> t.sector2_time,
                       sector3 |-> t.sector3_time],
     compound |-> t.compound]

\* the running maximum and minimum over the segments in iteration order,
\* both seeded with 0.0
RECURSIVE SpeedFold(_, _, _)
SpeedFold(segs, maxs, mins) ==
    IF segs = <<>> THEN [max_speed |-> maxs, min_speed |-> mins]
    ELSE LET t == Head(segs)
             newmax == IF TruthyNum(t.max_speed) /\ t.max_speed > maxs
                       THEN t.max_speed ELSE maxs
             newmin == IF TruthyNum(t.min_speed) /\ (t.min_speed < mins \/ mins = 0)
                       THEN t.min_speed ELSE mins
         IN SpeedFold(Tail(segs), newmax, newmin)

RECURSIVE Flatten(_)
Flatten(ss) == IF ss = <<>> THEN <<>> ELSE Head(ss) \o Flatten(Tail(ss))

ExportQuali(db, srow) ==
    LET quali_results == OrderResults({r \in db.qresults : r.session_id = srow.id})
        driver(r) == CHOOSE d \in db.drivers : d.id = r.driver_id
        codes == {driver(quali_results[k]).driver_code : k \in DOMAIN quali_results}
        lastOf(c) == quali_results[Max({k \in DOMAIN quali_results :
                                          driver(quali_results[k]).driver_code = c})]
        segsOf(r) == TelemetryData(db, r)
        driver_telemetry(r) ==
            [full_name |-> driver(r).full_name]
            @@ [g \in {segsOf(r)[k].segment : k \in DOMAIN segsOf(r)} |->
                  ExportSegment(segsOf(r)[Max({k \in DOMAIN segsOf(r) :
                                                 segsOf(r)[k].segment = g})])]
        speeds == SpeedFold(Flatten([k \in DOMAIN quali_results |->
                                       segsOf(quali_results[k])]), 0, 0)
    IN [results |-> [k \in DOMAIN quali_results |->
                       ExportResult(driver(quali_results[k]), quali_results[k])],
        telemetry |-> [c \in codes |-> driver_telemetry(lastOf(c))],
        max_speed |-> speeds.max_speed, min_speed |-> speeds.min_speed]

\* the session is looked up and, when found, rebuilt
LoadQuali(p, key) ==
    /\ Begin(p, [op |-> "load_qualifying_telemetry", key |-> key])
    /\ LET found == SessionQuery(store, key) IN
       IF found = {}
       THEN Return(p, RetNone, LocInit)
       ELSE Return(p, RetDict(ExportQuali(store, First(found))),
                   [LocInit EXCEPT !.sid = First(found).id])
    /\ UNCHANGED <<store, origin, faults>>

----------------------------------------------------------------------------
(* get_all_sessions *)

\* an order that puts the larger round first, whatever the year
SessionsBeforeByRound(a, b) ==
    \/ a.round_number > b.round_number
    \/ a.round_number = b.round_number /\ a.year > b.year

\* order_by(Session.year.desc(), Session.round_number.desc()): a comes
\* strictly before b
SessionsBefore(a, b) ==
    \/ a.year > b.year
    \/ a.year = b.year /\ a.round_number > b.round_number

CatalogEntry(session) ==
    [year |-> session.year, round |-> session.round_number,
     session_type |-> session.session_type, event_name |-> session.event_name,
     country |-> session.country, date |-> session.event_date]

\* one query and one entry per row; rows that the order does not separate
\* come in an order the database chooses
GetAllSessions(p) ==
    /\ Begin(p, [op |-> "get_all_sessions"])
    /\ LET rows == store.sessions
           n == Cardinality(rows)
       IN \E sessions \in [1..n -> rows] :
             /\ \A i, j \in 1..n : i # j => sessions[i] # sessions[j]
             /\ \A i, j \in 1..n : i < j => ~SessionsBefore(sessions[j], sessions[i])
             /\ Return(p, RetList([k \in 1..n |-> CatalogEntry(sessions[k])]),
                       LocInit)
    /\ UNCHANGED <<store, origin, faults>>

----------------------------------------------------------------------------
(* Deletion of a Session through the ORM: session.delete(row), commit.  The *)
(* relationships declared with cascade="all, delete-orphan" carry the       *)
(* deletion from a parent row to its child rows.                            *)

\* a telemetry_data relationship without its cascade
ResultTelemetryNoCascade(db, results) == {}

\* QualifyingResult.telemetry_data
ResultTelemetry(db, results) ==
    {t \in db.qtel : \E r \in results : t.result_id = r.id}

\* Session.drivers, .telemetry_frames, .track_statuses, .qualifying_results,
\* Driver.telemetry_points, .qualifying_results, TelemetryFrame.driver_data
CascadeDelete(db, sid) ==
    LET drivers == {d \in db.drivers : d.session_id = sid}
        frames == {f \in db.frames : f.session_id = sid}
        statuses == {t \in db.statuses : t.session_id = sid}
        qresults == {r \in db.qresults :
                       \/ r.session_id = sid
                       \/ \E d \in drivers : r.driver_id = d.id}
        dtel == {t \in db.dtel : \/ \E f \in frames : t.frame_id = f.id
                                  \/ \E d \in drivers : t.driver_id = d.id}
    IN [sessions |-> {x \in db.sessions : x.id # sid},
        drivers  |-> db.drivers \ drivers,
        frames   |-> db.frames \ frames,
        dtel     |-> db.dtel \ dtel,
        statuses |-> db.statuses \ statuses,
        qresults |-> db.qresults \ qresults,
        qtel     |-> db.qtel \ ResultTelemetry(db, qresults)]

\* the Session row of a key is looked up and, when found, deleted; the
\* deletion waits for the write lock
DeleteSession(p, key) ==
    /\ Begin(p, [op |-> "delete", key |-> key])
    /\ writer = NoProc
    /\ LET found == SessionQuery(store, key) IN
       IF found = {}
       THEN /\ Return(p, RetBool(FALSE), LocInit)
            /\ UNCHANGED store
       ELSE /\ Return(p, RetBool(TRUE), [LocInit EXCEPT !.sid = First(found).id])
            /\ store' = CascadeDelete(store, First(found).id)
    /\ UNCHANGED <<origin, faults>>

----------------------------------------------------------------------------
(* Storage faults *)

WritePcs == {"sr_create", "sr_batch", "sq_create", "sq_result"}

\* an I/O or integrity failure of a statement of an import
WriteFault(p) ==
    /\ pc[p] \in WritePcs
    /\ faults < MaxFaults
    /\ faults' = faults + 1
    /\ Fail(p, "fault")
    /\ UNCHANGED <<call, prev, ncalls, inputs>>

\* "database is locked": another connection holds the write lock for longer
\* than the busy timeout
Busy(p) ==
    /\ pc[p] \in WritePcs
    /\ writer \notin {NoProc, p}
    /\ Fail(p, "busy")
    /\ UNCHANGED <<call, prev, faults, ncalls, inputs>>

\* a failure of a query of load_race_telemetry: caught, None is returned
LoadRaceFault(p) ==
    /\ pc[p] = "lr_frames"
    /\ faults < MaxFaults
    /\ faults' = faults + 1
    /\ Return(p, RetNone, [loc[p] EXCEPT !.fail = "fault"])
    /\ UNCHANGED <<store, origin, call, prev, ncalls, inputs>>

\* a failure of a query of load_qualifying_telemetry: caught, None is returned
LoadQualiFault(p, key) ==
    /\ Begin(p, [op |-> "load_qualifying_telemetry", key |-> key])
    /\ faults < MaxFaults
    /\ faults' = faults + 1
    /\ Return(p, RetNone, [LocInit EXCEPT !.fail = "fault"])
    /\ UNCHANGED <<store, origin>>

----------------------------------------------------------------------------
(* The system *)

Init ==
    /\ store = EmptyDB
    /\ writer = NoProc
    /\ txn = [p \in Procs |-> EmptyDB]
    /\ pc = [p \in Procs |-> "idle"]
    /\ call = [p \in Procs |-> NoCall]
    /\ loc = [p \in Procs |-> LocInit]
    /\ ret = [p \in Procs |-> RetNone]
    /\ prev = [p \in Procs |-> [call |-> NoCall, ret |-> RetNone, fail |-> ""]]
    /\ origin = <<>>
    /\ faults = 0
    /\ ncalls = [p \in Procs |-> 0]
    /\ inputs \in Worlds

Next ==
    \E p \in Procs :
        \/ \E key \in inputs.loads : CheckSessionExists(p, key)
        \/ \E key \in inputs.keys, info \in SessionInfos, data \in inputs.race :
              SaveRaceCheck(p, key, info, data)
        \/ SaveRaceCreate(p)
        \/ SaveRaceBatch(p)
        \/ \E key \in inputs.loads : LoadRaceFind(p, key)
        \/ LoadRaceFrames(p)
        \/ \E key \in inputs.keys, info \in SessionInfos, data \in inputs.quali :
              SaveQualiCheck(p, key, info, data)
        \/ SaveQualiCreate(p)
        \/ SaveQualiResult(p)
        \/ SaveQualiCommit(p)
        \/ \E key \in inputs.loads : LoadQuali(p, key)
        \/ GetAllSessions(p)
        \/ \E key \in inputs.loads : DeleteSession(p, key)
        \/ WriteFault(p)
        \/ Busy(p)
        \/ LoadRaceFault(p)
        \/ \E key \in inputs.loads : LoadQualiFault(p, key)

Spec == Init /\ [][Next]_vars

----------------------------------------------------------------------------
(* Vocabulary of the properties *)

ImportOps == {"save_race_telemetry", "save_qualifying_telemetry"}
LoadOps == {"load_race_telemetry", "load_qualifying_telemetry"}

\* the call of p returns in this step
Finished(p) ==
    /\ pc'[p] = "done"
    /\ pc[p] \notin {"idle", "done"} \/ call'[p].n # call[p].n

\* p starts a call in this step
Started(p) == call'[p].n # call[p].n

\* the Session rows of a natural key
RowsOfKey(db, key) ==
    {s \in db.sessions : s.year = key.year /\ s.round_number = key.round
                         /\ s.session_type = key.type}

\* the TelemetryFrame rows of the sessions of a natural key
FramesOfKey(db, key) ==
    {f \in db.frames : \E s \in RowsOfKey(db, key) : f.session_id = s.id}

\* the existence check of the import p runs or has run found no session
PassedCheck(p) ==
    /\ call[p].op \in ImportOps
    /\ \/ pc[p] \in WritePcs
       \/ pc[p] = "done" /\ (loc[p].sid # 0 \/ loc[p].fail # "")

----------------------------------------------------------------------------
(* Properties *)

\* C1: when a storage fault hits a batch of save_race_telemetry, whichever
\* batch it is, the call reports failure and the store then holds no Session
\* row and no TelemetryFrame row of that natural key.
C1_FaultInAnyBatchRollsBackImport ==
    [][\A p \in Procs :
          (pc[p] = "sr_batch" /\ Finished(p) /\ loc'[p].fail = "fault")
          => /\ ret'[p] = RetNone
             /\ RowsOfKey(store', call[p].key) = {}
             /\ FramesOfKey(store', call[p].key) = {}]_vars

\* C2: a load_race_telemetry or check_session_exists that runs while a race
\* import of the same key is in progress sees no session or the session with
\* all the frames of the payload, never a session with some of its frames.
C2_ReaderSeesNoPartialSession ==
    [][\A p \in Procs :
          /\ (Finished(p) /\ call'[p].op = "load_race_telemetry"
                /\ ret'[p].tag = "dict"
                /\ origin[loc'[p].sid].call.op = "save_race_telemetry")
             => Len(ret'[p].val.frames)
                   = Len(Get(origin[loc'[p].sid].call.data, "frames", <<>>))
          /\ (Finished(p) /\ call'[p].op = "check_session_exists"
                /\ ret'[p] = RetBool(TRUE))
             => \A s \in RowsOfKey(store', call'[p].key) :
                   origin[s.id].call.op = "save_race_telemetry"
                   => Cardinality({f \in store'.frames : f.session_id = s.id})
                         = Len(Get(origin[s.id].call.data, "frames", <<>>))]_vars

\* C3: of two imports of the same natural key that both found the key absent,
\* exactly one creates the session, and the other returns the identifier of
\* that session, not the failure value (no storage fault, no lock timeout,
\* payloads well formed).
C3_ConcurrentImportLoserGetsId ==
    [][\A p \in Procs : \A q \in Procs \ {p} :
          (/\ Finished(p) /\ pc[p] \in WritePcs
           /\ PassedCheck(q) /\ call[q].key = call[p].key
           /\ loc'[p].fail \notin {"fault", "busy", "malformed"}
           /\ loc[q].fail \notin {"fault", "busy", "malformed"})
          => /\ ret'[p].tag = "id"
             /\ ~(loc'[p].wrote > 0 /\ loc[q].wrote > 0)
             /\ (pc[q] = "done" /\ ret[q].tag = "id") => ret'[p] = ret[q]]_vars

\* C4: in every reachable state no two Session rows, committed or visible to
\* a caller inside its transaction, share (year, round, session type).
C4_NaturalKeyUnique ==
    \A p \in Procs :
       \A s1 \in store.sessions \cup txn[p].sessions :
          \A s2 \in store.sessions \cup txn[p].sessions :
             (s1.year = s2.year /\ s1.round_number = s2.round_number
                /\ s1.session_type = s2.session_type) => s1 = s2

\* C4 witness: a second creation of a stored natural key was attempted and
\* rejected
C4_Witness ==
    \E p \in Procs : /\ pc[p] = "done" /\ loc[p].fail = "integrity"
                     /\ RowsOfKey(store, call[p].key) # {}

\* C5: a caller that imports twice in sequence with the same natural key and
\* the same payload gets the same session identifier both times, and the
\* second call adds no row (no caller deletes a session).
C5_ReimportIdempotent ==
    [][\A p \in Procs :
          (/\ Finished(p) /\ call'[p].op \in ImportOps
           /\ \A q \in Procs : call'[q].op # "delete"
           /\ prev'[p].call.op = call'[p].op
           /\ prev'[p].call.key = call'[p].key
           /\ prev'[p].call.data = call'[p].data
           /\ prev'[p].ret.tag = "id"
           /\ loc'[p].fail = "")
          => /\ ret'[p] = prev'[p].ret
             /\ loc'[p].wrote = 0]_vars

\* C6: whenever save_race_telemetry returns an identifier, for any payload,
\* also one without frames, a session of that natural key is committed in the
\* store after the call.
C6_ReturnedIdMeansStored ==
    [][\A p \in Procs :
          (Finished(p) /\ call'[p].op = "save_race_telemetry"
             /\ ret'[p].tag = "id")
          => RowsOfKey(store', call'[p].key) # {}]_vars

\* field-level equality of a supplied driver sample and an exported one
\* (an absent field is null, an absent tyre is 0)
SampleEq(sup, exp) ==
    /\ \A f \in {"x", "y", "dist", "rel_dist", "position", "lap", "speed", "gear",
                 "drs", "throttle", "brake"} : exp[f] = Get(sup, f, None)
    /\ exp.tyre = Get(sup, "tyre", 0)

RaceRoundTrip(sup, exp) ==
    /\ Len(exp.frames) = Len(sup.frames)
    /\ \A k \in DOMAIN sup.frames :
          /\ exp.frames[k].t = sup.frames[k].t
          /\ DOMAIN exp.frames[k].drivers = DOMAIN sup.frames[k].drivers
          /\ \A c \in DOMAIN sup.frames[k].drivers :
                SampleEq(sup.frames[k].drivers[c], exp.frames[k].drivers[c])

NonDecreasing(frames) ==
    \A k \in DOMAIN frames : k > 1 => frames[k - 1].t <= frames[k].t

\* C7: load_race_telemetry of a session that a successful import of a valid
\* payload created returns the frames of the payload, in the same order, each
\* with the same driver codes and the same per-driver field values.
C7_RaceRoundTrip ==
    [][\A p \in Procs :
          (/\ Finished(p) /\ call'[p].op = "load_race_telemetry"
           /\ ret'[p].tag = "dict"
           /\ origin[loc'[p].sid].call.op = "save_race_telemetry"
           /\ origin[loc'[p].sid].complete
           /\ ~RaceMalformed(origin[loc'[p].sid].call.data)
           /\ NonDecreasing(origin[loc'[p].sid].call.data.frames))
          => RaceRoundTrip(origin[loc'[p].sid].call.data, ret'[p].val)]_vars

\* C8: a load_race_telemetry or load_qualifying_telemetry whose natural key
\* has no session in the store returns None and leaves the store unchanged.
C8_LoadOfAbsentKeyIsNotFound ==
    [][\A p \in Procs :
          (Started(p) /\ call'[p].op \in LoadOps
             /\ RowsOfKey(store, call'[p].key) = {})
          => /\ pc'[p] = "done"
             /\ ret'[p] = RetNone
             /\ store' = store]_vars

\* C8 witness: a load of an absent key has returned None, without a fault,
\* while the store holds a session of another key
C8_Witness ==
    \E p \in Procs : /\ pc[p] = "done" /\ call[p].op \in LoadOps
                     /\ ret[p] = RetNone /\ loc[p].fail = ""
                     /\ RowsOfKey(store, call[p].key) = {}
                     /\ store.sessions # {}

\* C9: a save_race_telemetry of a malformed payload under an absent key
\* reports failure and has written nothing to the store, wherever the
\* malformed element stands.
C9_MalformedFailsBeforeAnyWrite ==
    [][\A p \in Procs :
          (/\ Finished(p) /\ pc[p] \in WritePcs
           /\ call[p].op = "save_race_telemetry"
           /\ RaceMalformed(call[p].data))
          => /\ ret'[p] = RetNone
             /\ loc'[p].wrote = 0]_vars

\* C10: when save_qualifying_telemetry fails at any step, after any number of
\* rows were added, it reports failure, it has committed nothing, and the
\* store holds none of the rows it had added.
C10_QualiImportOneTransaction ==
    [][\A p \in Procs :
          (/\ Finished(p) /\ pc[p] \in WritePcs
           /\ call[p].op = "save_qualifying_telemetry"
           /\ loc'[p].fail # "")
          => /\ ret'[p] = RetNone
             /\ loc'[p].wrote = 0
             /\ store' = store
             /\ txn[p].sessions \cap store'.sessions = {}
             /\ txn[p].drivers \cap store'.drivers = {}
             /\ txn[p].qresults \cap store'.qresults = {}
             /\ txn[p].qtel \cap store'.qtel = {}]_vars

\* C10 witness: a qualifying import has failed after it had added the rows of
\* a result entry, and its rows are not in the store
C10_Witness ==
    \E p \in Procs : /\ pc[p] = "done"
                     /\ call[p].op = "save_qualifying_telemetry"
                     /\ ret[p] = RetNone
                     /\ loc[p].j >= 1
                     /\ loc[p].fail \in {"fault", "malformed"}
                     /\ RowsOfKey(store, call[p].key) = {}

----------------------------------------------------------------------------
(* Qualifying round trip *)

\* the session a load has exported was created by a qualifying import
LoadedQuali(p) ==
    /\ Finished(p) /\ call'[p].op = "load_qualifying_telemetry"
    /\ ret'[p].tag = "dict"
    /\ loc'[p].sid \in DOMAIN origin
    /\ origin[loc'[p].sid].call.op = "save_qualifying_telemetry"

\* the payload of the import that created the session p has loaded
Supplied(p) == origin[loc'[p].sid].call.data

\* the segments of driver code c that were supplied with samples
SuppliedSegments(data, c) ==
    LET telemetry == Get(Get(data, "telemetry", EmptyDict), c, EmptyDict) IN
    {Segments[k] : k \in {m \in DOMAIN Segments :
        Get(Get(telemetry, Segments[m], EmptyDict), "frames", <<>>) # <<>>}}

\* QualifyingTelemetry rows exist for exactly the segments supplied with
\* samples, for every result row of session sid
RowsIffSamples(db, sid, data) ==
    \A r \in {q \in db.qresults : q.session_id = sid} :
       LET c == (CHOOSE d \in db.drivers : d.id = r.driver_id).driver_code IN
       {t.segment : t \in {u \in db.qtel : u.result_id = r.id}}
          = SuppliedSegments(data, c)

\* C11 as stated: a QualifyingTelemetry row is stored exactly for the segments
\* supplied with samples, and the telemetry mapping exported for a driver has
\* the keys of those segments and no other key.
C11_SegmentKeysOnly ==
    [][\A p \in Procs :
          LoadedQuali(p)
          => /\ RowsIffSamples(store', loc'[p].sid, Supplied(p))
             /\ \A k \in DOMAIN Supplied(p).results :
                   LET c == Supplied(p).results[k].code IN
                   DOMAIN ret'[p].val.telemetry[c]
                      = SuppliedSegments(Supplied(p), c)]_vars

\* C11 amended: a QualifyingTelemetry row is stored exactly for the segments
\* supplied with samples, and the telemetry mapping exported for a driver has
\* the key full_name and, apart from it, exactly the keys of those segments.
C11_SegmentKeysAndFullName ==
    [][\A p \in Procs :
          LoadedQuali(p)
          => /\ RowsIffSamples(store', loc'[p].sid, Supplied(p))
             /\ \A k \in DOMAIN Supplied(p).results :
                   LET c == Supplied(p).results[k].code IN
                   DOMAIN ret'[p].val.telemetry[c]
                      = {"full_name"} \cup SuppliedSegments(Supplied(p), c)]_vars

\* C11 witness: an export in which driver A, supplied with Q1 and Q2 samples
\* and no Q3, has the keys Q1 and Q2, and driver B, whose Q2 was supplied
\* with an empty sample sequence, has Q1 and not Q2
C11_Witness ==
    \E p \in Procs :
       /\ pc[p] = "done" /\ call[p].op = "load_qualifying_telemetry"
       /\ ret[p].tag = "dict"
       /\ {"A", "B"} \subseteq DOMAIN ret[p].val.telemetry
       /\ DOMAIN ret[p].val.telemetry["A"] \cap {"Q1", "Q2", "Q3"} = {"Q1", "Q2"}
       /\ DOMAIN ret[p].val.telemetry["B"] \cap {"Q1", "Q2", "Q3"} = {"Q1"}
       /\ Cardinality(store.qtel) = 3

\* C12: the max_speed and min_speed that load_qualifying_telemetry returns are
\* the maximum of the supplied segment maximum speeds and the minimum of the
\* supplied segment minimum speeds, over all drivers and segments stored.
C12_SpeedExtremes ==
    [][\A p \in Procs :
          LoadedQuali(p)
          => LET data == Supplied(p)
                 codes == {data.results[k].code : k \in DOMAIN data.results}
                 summary(c, g) == Get(Get(Get(data, "telemetry", EmptyDict), c,
                                          EmptyDict), g, EmptyDict)
                 given == {summary(c, g) : c \in codes, g \in {"Q1", "Q2", "Q3"}}
                 stored == {sd \in given : Get(sd, "frames", <<>>) # <<>>}
                 maxes == {Get(sd, "max_speed", None) : sd \in stored} \ {None}
                 mins == {Get(sd, "min_speed", None) : sd \in stored} \ {None}
             IN /\ maxes # {}
                   => ret'[p].val.max_speed = Max(maxes)
                /\ mins # {}
                   => ret'[p].val.min_speed
                        = CHOOSE m \in mins : \A n \in mins : m <= n]_vars

\* C13: for every result entry and each of Q1, Q2, Q3, a lap time supplied at
\* import is exported as a string that denotes the same time, never as
\* absent, and a lap time not supplied is exported as absent.
C13_LapTimeRepresentation ==
    [][\A p \in Procs :
          LoadedQuali(p)
          => \A k \in DOMAIN Supplied(p).results :
                LET r == Supplied(p).results[k]
                    exported == {ret'[p].val.results[m] :
                                   m \in DOMAIN ret'[p].val.results}
                    e == CHOOSE x \in exported : x.code = r.code
                IN /\ \E x \in exported : x.code = r.code
                   /\ \A q \in {"Q1", "Q2", "Q3"} :
                         IF q \in DOMAIN r /\ r[q] \notin {NoneStr, <<>>}
                         THEN /\ e[q] # NoneStr
                              /\ PyFloatOfStr(e[q]) = PyFloatOfStr(r[q])
                         ELSE e[q] = NoneStr]_vars

----------------------------------------------------------------------------
(* Race export order *)

\* p returns the export of a session that a race import created
LoadedRace(p) ==
    /\ Finished(p) /\ call'[p].op = "load_race_telemetry"
    /\ ret'[p].tag = "dict"
    /\ loc'[p].sid \in DOMAIN origin
    /\ origin[loc'[p].sid].call.op = "save_race_telemetry"

\* C14 as stated: consecutive frames of an export have strictly increasing
\* times.
C14_FramesStrictlyAscending ==
    [][\A p \in Procs :
          LoadedRace(p)
          => \A k \in DOMAIN ret'[p].val.frames :
                k > 1 => ret'[p].val.frames[k - 1].t < ret'[p].val.frames[k].t]_vars

\* C14 amended: consecutive frames of an export have non-decreasing times,
\* whatever order the frames were supplied in.
C14_FramesAscending ==
    [][\A p \in Procs :
          LoadedRace(p)
          => \A k \in DOMAIN ret'[p].val.frames :
                k > 1 => ret'[p].val.frames[k - 1].t <= ret'[p].val.frames[k].t]_vars

\* C14 witness: an export of three frames whose payload had them out of time
\* order, two of them of the same time
C14_Witness ==
    \E p \in Procs :
       /\ pc[p] = "done" /\ call[p].op = "load_race_telemetry"
       /\ ret[p].tag = "dict"
       /\ loc[p].sid \in DOMAIN origin
       /\ ~NonDecreasing(origin[loc[p].sid].call.data.frames)
       /\ Len(ret[p].val.frames) = 3
       /\ ret[p].val.frames[1].t = ret[p].val.frames[2].t
       /\ ret[p].val.frames[2].t < ret[p].val.frames[3].t

\* C15: the track statuses of an export are the intervals supplied at import,
\* each with its status, start time and end time (absent when none was
\* supplied), as often as supplied, in ascending order of start time.
C15_TrackStatusesRoundTrip ==
    [][\A p \in Procs :
          LoadedRace(p)
          => LET sup == Get(origin[loc'[p].sid].call.data, "track_statuses", <<>>)
                 exp == ret'[p].val.track_statuses
                 norm(s) == [status |-> s.status, start_time |-> s.start_time,
                             end_time |-> Get(s, "end_time", None)]
                 all == {norm(sup[k]) : k \in DOMAIN sup}
                           \cup {exp[k] : k \in DOMAIN exp}
             IN /\ \A x \in all :
                      Cardinality({k \in DOMAIN sup : norm(sup[k]) = x})
                         = Cardinality({k \in DOMAIN exp : exp[k] = x})
                /\ \A k \in DOMAIN exp :
                      k > 1 => exp[k - 1].start_time <= exp[k].start_time]_vars

\* C15 witness: an export with two statuses, supplied in descending order of
\* start time, the one without an end time exported last with end_time absent
C15_Witness ==
    \E p \in Procs :
       /\ pc[p] = "done" /\ call[p].op = "load_race_telemetry"
       /\ ret[p].tag = "dict"
       /\ loc[p].sid \in DOMAIN origin
       /\ origin[loc[p].sid].call.data.track_statuses = <<StatusOpen, StatusClosed>>
       /\ Len(ret[p].val.track_statuses) = 2
       /\ ret[p].val.track_statuses[1].end_time = StatusClosed.end_time
       /\ ret[p].val.track_statuses[2].end_time = None

\* C16: the results list of a qualifying export has one entry for every
\* result entry supplied at import (same code and position, as often as
\* supplied) and is in ascending order of position, whatever the supplied order.
C16_ResultsByPosition ==
    [][\A p \in Procs :
          LoadedQuali(p)
          => LET sup == Supplied(p).results
                 exp == ret'[p].val.results
                 ent(r) == <<r.code, r.position>>
             IN /\ Len(exp) = Len(sup)
                /\ \A x \in {ent(sup[k]) : k \in DOMAIN sup} :
                      Cardinality({k \in DOMAIN sup : ent(sup[k]) = x})
                         = Cardinality({k \in DOMAIN exp : ent(exp[k]) = x})
                /\ \A k \in DOMAIN exp :
                      k > 1 => exp[k - 1].position <= exp[k].position]_vars

\* C16 witness: an export whose entries were supplied in descending order of
\* position and come back in ascending order
C16_Witness ==
    \E p \in Procs :
       /\ pc[p] = "done" /\ call[p].op = "load_qualifying_telemetry"
       /\ ret[p].tag = "dict"
       /\ loc[p].sid \in DOMAIN origin
       /\ origin[loc[p].sid].call.data = Q_Rev
       /\ Len(ret[p].val.results) = 2
       /\ ret[p].val.results[1].code = "A" /\ ret[p].val.results[1].position = 1
       /\ ret[p].val.results[2].code = "B" /\ ret[p].val.results[2].position = 2

----------------------------------------------------------------------------
(* Catalog *)

----------------------------------------------------------------------------
(* Cascading delete *)

\* C18: after a Session is deleted, the store holds no Driver, TelemetryFrame,
\* TrackStatus or QualifyingResult of that session, no DriverTelemetry of a
\* deleted driver or frame and no QualifyingTelemetry of a deleted result, and
\* every row of another session is still there.
C18_CascadingDelete ==
    [][\A p \in Procs :
          (Finished(p) /\ call'[p].op = "delete" /\ ret'[p] = RetBool(TRUE))
          => LET sid == loc'[p].sid
                 gone(table) == {r.id : r \in store[table] \ store'[table]}
                 kept(table) == {r \in store[table] : r.session_id # sid}
             IN /\ \A s \in store'.sessions : s.id # sid
                /\ \A t \in {"drivers", "frames", "statuses", "qresults"} :
                      \A r \in store'[t] : r.session_id # sid
                /\ \A t \in store'.dtel : /\ t.frame_id \notin gone("frames")
                                           /\ t.driver_id \notin gone("drivers")
                /\ \A r \in store'.qresults : r.driver_id \notin gone("drivers")
                /\ \A t \in store'.qtel : t.result_id \notin gone("qresults")
                /\ \A t \in {"drivers", "frames", "statuses", "qresults"} :
                      kept(t) \subseteq store'[t]
                /\ {s \in store.sessions : s.id # sid} \subseteq store'.sessions
                /\ \A t \in store.dtel :
                      (\E f \in kept("frames") : t.frame_id = f.id)
                      => t \in store'.dtel
                /\ \A t \in store.qtel :
                      (\E r \in kept("qresults") : t.result_id = r.id)
                      => t \in store'.qtel]_vars

\* C18 witness: a session with rows in every table of its kind was deleted
\* and the store still holds a session
C18_Witness ==
    \E p \in Procs :
       /\ pc[p] = "done" /\ call[p].op = "delete" /\ ret[p] = RetBool(TRUE)
       /\ store.sessions # {}
       /\ store.dtel # {}
       /\ \A s \in store.sessions : s.id # loc[p].sid

----------------------------------------------------------------------------
(* Lookup *)

\* C19: check_session_exists returns, in one step and without raising, True
\* when a Session row of exactly its natural key is committed and False when
\* none is, and it leaves every table of the store as it was.
C19_ExistsIsPureLookup ==
    [][\A p \in Procs :
          (Started(p) /\ call'[p].op = "check_session_exists")
          => /\ pc'[p] = "done"
             /\ ret'[p] = RetBool(RowsOfKey(store, call'[p].key) # {})
             /\ store' = store
             /\ txn' = txn]_vars

\* C19 witness: a lookup has returned False for a key that is absent while a
\* session of the same year and round and of another type is stored
C19_Witness ==
    \E p \in Procs :
       /\ pc[p] = "done" /\ call[p].op = "check_session_exists"
       /\ ret[p] = RetBool(FALSE)
       /\ \E s \in store.sessions : /\ s.year = call[p].key.year
                                     /\ s.round_number = call[p].key.round
                                     /\ s.session_type # call[p].key.type

\* C20: the result of a load_race_telemetry or load_qualifying_telemetry that
\* a storage fault has hit differs from None, the result of a load of an
\* absent key.
C20_LoadFaultIsDistinct ==
    [][\A p \in Procs :
          (Finished(p) /\ call'[p].op \in LoadOps /\ loc'[p].fail = "fault")
          => ret'[p] # RetNone]_vars

----------------------------------------------------------------------------
(* Race samples *)

\* C21: a save_race_telemetry that has created its session leaves one Driver
\* row for every driver code of any frame of the payload and one
\* DriverTelemetry row for every sample of the payload, and a later
\* load_race_telemetry returns, frame by frame, every driver of the payload.
C21_DriversOfAllFrames ==
    [][\A p \in Procs :
          /\ (/\ Finished(p) /\ call'[p].op = "save_race_telemetry"
               /\ ret'[p].tag = "id" /\ loc'[p].wrote > 0)
             => LET frames == call'[p].data.frames
                    sid == ret'[p].val
                    codes == UNION {DOMAIN frames[k].drivers : k \in DOMAIN frames}
                    samples == UNION {{<<k, c>> : c \in DOMAIN frames[k].drivers} :
                                        k \in DOMAIN frames}
                    fids == {f.id : f \in {g \in store'.frames : g.session_id = sid}}
                IN /\ \A c \in codes :
                         Cardinality({d \in store'.drivers :
                            d.session_id = sid /\ d.driver_code = c}) = 1
                   /\ Cardinality({t \in store'.dtel : t.frame_id \in fids})
                         = Cardinality(samples)
          /\ (/\ LoadedRace(p)
               /\ origin[loc'[p].sid].complete
               /\ NonDecreasing(origin[loc'[p].sid].call.data.frames))
             => LET sup == origin[loc'[p].sid].call.data.frames
                    exp == ret'[p].val.frames
                IN \A k \in DOMAIN sup :
                      k \in DOMAIN exp
                      => DOMAIN sup[k].drivers \subseteq DOMAIN exp[k].drivers]_vars

\* C22: an optional numeric field that a saved sample lacks is null in its
\* DriverTelemetry row and null in the export, and a tyre compound that it
\* lacks is 0 in the row and 0 in the export.
C22_AbsentFieldsAreNull ==
    [][\A p \in Procs :
          LET column == [dist |-> "distance", rel_dist |-> "relative_distance",
                         position |-> "position", lap |-> "lap", speed |-> "speed",
                         gear |-> "gear", drs |-> "drs", throttle |-> "throttle",
                         brake |-> "brake"]
          IN
          /\ (/\ Finished(p) /\ call'[p].op = "save_race_telemetry"
               /\ ret'[p].tag = "id" /\ loc'[p].wrote > 0)
             => LET frames == call'[p].data.frames
                    sid == ret'[p].val
                    fids == {f.id : f \in {g \in store'.frames : g.session_id = sid}}
                    index(t) == Cardinality({i \in fids : i <= t.frame_id})
                    code(t) == (CHOOSE d \in store'.drivers :
                                   d.id = t.driver_id).driver_code
                IN \A t \in {u \in store'.dtel : u.frame_id \in fids} :
                      LET d == frames[index(t)].drivers[code(t)] IN
                      /\ \A f \in DOMAIN column \ DOMAIN d : t[column[f]] = None
                      /\ "tyre" \notin DOMAIN d => t.tyre_compound = 0
          /\ (/\ LoadedRace(p)
               /\ origin[loc'[p].sid].complete
               /\ NonDecreasing(origin[loc'[p].sid].call.data.frames))
             => LET sup == origin[loc'[p].sid].call.data.frames
                    exp == ret'[p].val.frames
                IN \A k \in DOMAIN sup \cap DOMAIN exp :
                      \A c \in DOMAIN sup[k].drivers \cap DOMAIN exp[k].drivers :
                         LET d == sup[k].drivers[c]
                             e == exp[k].drivers[c]
                         IN /\ \A f \in DOMAIN column \ DOMAIN d : e[f] = None
                            /\ "tyre" \notin DOMAIN d => e.tyre = 0]_vars

\* C22 witness: an export in which a sample supplied with x and y only has a
\* null speed and tyre 0, next to a sample that has its speed
C22_Witness ==
    \E p \in Procs :
       /\ pc[p] = "done" /\ call[p].op = "load_race_telemetry"
       /\ ret[p].tag = "dict"
       /\ loc[p].sid \in DOMAIN origin
       /\ origin[loc[p].sid].call.data = P_Three
       /\ Len(ret[p].val.frames) = 3
       /\ ret[p].val.frames[1].drivers["B"].speed = None
       /\ ret[p].val.frames[1].drivers["B"].tyre = 0
       /\ ret[p].val.frames[1].drivers["A"].speed = 300

\* C23: a frame of an export has a weather snapshot exactly when the frame
\* supplied at import had one, whichever fields that snapshot had.
C23_WeatherPresence ==
    [][\A p \in Procs :
          (/\ LoadedRace(p)
           /\ origin[loc'[p].sid].complete
           /\ NonDecreasing(origin[loc'[p].sid].call.data.frames))
          => LET sup == origin[loc'[p].sid].call.data.frames
                 exp == ret'[p].val.frames
             IN \A k \in DOMAIN sup \cap DOMAIN exp :
                   "weather" \in DOMAIN exp[k] <=> "weather" \in DOMAIN sup[k]]_vars


----------------------------------------------------------------------------
(* Immutability and locality *)

\* C24: a save_race_telemetry or save_qualifying_telemetry whose natural key
\* has a Session row in the store returns at once the identifier of that row
\* and leaves every table as it was, whatever its payload.
C24_NoUpdateInPlace ==
    [][\A p \in Procs :
          (Started(p) /\ call'[p].op \in ImportOps
             /\ RowsOfKey(store, call'[p].key) # {})
          => /\ pc'[p] = "done"
             /\ ret'[p].tag = "id"
             /\ \E s \in RowsOfKey(store, call'[p].key) : ret'[p].val = s.id
             /\ store' = store
             /\ txn' = txn]_vars

\* C24 witness: an import with a payload that differs from the one the stored
\* session was created from has returned the identifier of that session
C24_Witness ==
    \E p \in Procs :
       /\ pc[p] = "done" /\ call[p].op \in ImportOps
       /\ ret[p].tag = "id" /\ loc[p] = LocInit
       /\ ret[p].val \in DOMAIN origin
       /\ origin[ret[p].val].call.data # call[p].data
       /\ \E s \in RowsOfKey(store, call[p].key) : s.id = ret[p].val

----------------------------------------------------------------------------
(* Invariants of the rows *)

\* C26: in every reachable state no two Driver rows have the same session and
\* driver code, and no two QualifyingResult rows have the same session and
\* driver.
C26_DriverCodeUnique ==
    /\ \A d1 \in store.drivers : \A d2 \in store.drivers :
          (d1.session_id = d2.session_id /\ d1.driver_code = d2.driver_code)
          => d1 = d2
    /\ \A r1 \in store.qresults : \A r2 \in store.qresults :
          (r1.session_id = r2.session_id /\ r1.driver_id = r2.driver_id)
          => r1 = r2

\* C27: in every reachable state no two DriverTelemetry rows have the same
\* frame and driver, and the frame and the driver of every DriverTelemetry
\* row exist and belong to the same session.
C27_OneSamplePerFrameAndDriver ==
    LET pairs == {<<t.frame_id, t.driver_id>> : t \in store.dtel}
        frameSession == {<<f.id, f.session_id>> : f \in store.frames}
    IN /\ Cardinality(pairs) = Cardinality(store.dtel)
       /\ \A t \in store.dtel :
             \E d \in store.drivers :
                /\ d.id = t.driver_id
                /\ <<t.frame_id, d.session_id>> \in frameSession

\* an import has finished and left two drivers in one frame and one driver in
\* two frames
C27_Witness ==
    /\ \E p \in Procs : pc[p] = "done" /\ call[p].op = "save_race_telemetry"
                          /\ ret[p] # RetNone
    /\ \E t1 \in store.dtel : \E t2 \in store.dtel :
          t1.frame_id = t2.frame_id /\ t1.driver_id # t2.driver_id
    /\ \E t1 \in store.dtel : \E t2 \in store.dtel :
          t1.frame_id # t2.frame_id /\ t1.driver_id = t2.driver_id

----------------------------------------------------------------------------
(* Retry *)

\* C28: when save_race_telemetry has reported a write failure for a key and
\* the caller's next call is the same import again, hit by no fault, that call
\* returns a session identifier and a load_race_telemetry of the key then
\* returns every frame of the payload (stated for payloads with at least one
\* frame; an import without frames commits nothing at all, see C6).
C28_RetryConverges ==
    [][\A p \in Procs :
          (/\ Finished(p) /\ call'[p].op = "save_race_telemetry"
           /\ loc'[p].fail = ""
           /\ Get(call'[p].data, "frames", <<>>) # <<>>
           /\ prev'[p].call.op = "save_race_telemetry"
           /\ prev'[p].call.key = call'[p].key
           /\ prev'[p].call.data = call'[p].data
           /\ prev'[p].ret = RetNone
           /\ prev'[p].fail \in {"fault", "busy"})
          => /\ ret'[p].tag = "id"
             /\ LET found == SessionQuery(store', call'[p].key) IN
                /\ found # {}
                /\ Len(ExportRace(store', First(found)).frames)
                      = Len(Get(call'[p].data, "frames", <<>>))]_vars

====
